---- MODULE Spec2Model ----
(***************************************************************************)
(* winepref: a command line tool that manages wine prefix directories.     *)
(*                                                                         *)
(* A Python str is modelled as a sequence of one-character strings, a      *)
(* pathlib Path as the sequence of its components below the root, and an   *)
(* Optional value as a sequence of length at most one (None is <<>>).      *)
(* The grave accent, which a TLA+ string cannot hold, is written           *)
(* "backtick".                                                             *)
(* One run of main() is one behaviour: the filesystem, the environment and *)
(* the subcommand are inputs drawn in Init, the subcommand's arguments are *)
(* drawn in the parse_args step.                                           *)
(***************************************************************************)
EXTENDS Integers, Sequences, FiniteSets, TLC

VARIABLES
    pc,                \* position in main(): "start", "parsed", "configured",
                       \* "loaded", "done"
    func,              \* args.func: the subcommand on the command line
    argPREFIX,         \* args.PREFIX of new
    argEXE,            \* args.EXE of shortcut
    argOptPREFIX,      \* args.PREFIX of shortcut (nargs="?"): None or a str
    argName,           \* args.name of shortcut: None or a str
    environWINEPREFIX, \* environ.get("WINEPREFIX"): None or a str
    environXDG,        \* environ.get("XDG_CONFIG_DIR"): None or a str
    winecfgOnPath,     \* whether an executable winecfg is found on PATH
    configFile,        \* the text of the file at config_path, None if absent
    prefixDirExists,   \* whether /home/u/.wineprefix exists
    files,             \* names of the regular files directly in it
    dirs,              \* names of the directories directly in it
    applications,      \* ~/.local/share/applications: file name -> text
    cfg,               \* the Config load_config returned: None before
    prefixen,          \* the mapping load_prefixen returned to main()
    status,            \* exit status of the process, -1 while it runs
    stderr,            \* what the process wrote to stderr when it ended
    stdout,            \* the lines printed
    child,             \* the winecfg child: <<>> or <<[WINEPREFIX, outcome]>>
    generated,         \* the call of create_desktop_file: <<>> or its arguments
    escS,              \* the argument s of escape_base and escape_exe
    escBase,           \* escape_base(s) once computed
    escExe             \* escape_exe(s) once computed

argVars == <<func, argPREFIX, argEXE, argOptPREFIX, argName>>
envVars == <<environWINEPREFIX, environXDG, winecfgOnPath>>
fsVars == <<configFile, prefixDirExists, files, dirs, applications>>
runVars == <<pc, cfg, prefixen, status, stderr, stdout, child, generated>>
escVars == <<escS, escBase, escExe>>

vars == <<argVars, envVars, fsVars, runVars, escVars>>

----------------------------------------------------------------------------
(* Bounds *)

\* longest name given on the command line of new
MaxNameLen == 2

\* longest EXE, PREFIX and --name given on the command line of shortcut
MaxArgLen == 1

\* longest string given to escape_base and escape_exe
MaxStrLen == 3

\* most lines of a config file found on disk
MaxCfgLines == 4

----------------------------------------------------------------------------
(* Strings and paths *)

None == <<>>
Some(x) == <<x>>

\* all strings over alphabet of length at most n
RECURSIVE StringsUpTo(_, _)
StringsUpTo(alphabet, n) ==
    IF n = 0 THEN {<<>>}
    ELSE LET shorter == StringsUpTo(alphabet, n - 1)
         IN  shorter \cup {Append(s, c) : s \in shorter, c \in alphabet}

\* ''.join(parts)
RECURSIVE Join(_)
Join(parts) ==
    IF parts = <<>> THEN <<>> ELSE Head(parts) \o Join(Tail(parts))

\* s.split(sep) for a one-character separator
RECURSIVE Split(_, _)
Split(s, sep) ==
    IF \A i \in 1..Len(s) : s[i] # sep THEN <<s>>
    ELSE LET k == CHOOSE i \in 1..Len(s) :
                      s[i] = sep /\ \A j \in 1..(i - 1) : s[j] # sep
         IN  <<SubSeq(s, 1, k - 1)>> \o Split(SubSeq(s, k + 1, Len(s)), sep)

Whitespace == {" ", "\t", "\n", "\r", "\f"}

\* s.lstrip()
RECURSIVE lstrip(_)
lstrip(s) ==
    IF s # <<>> /\ Head(s) \in Whitespace THEN lstrip(Tail(s)) ELSE s

\* s.rstrip()
RECURSIVE rstrip(_)
rstrip(s) ==
    IF s # <<>> /\ s[Len(s)] \in Whitespace
    THEN rstrip(SubSeq(s, 1, Len(s) - 1)) ELSE s

\* s.strip()
strip(s) == lstrip(rstrip(s))

\* the components pathlib keeps of a path string: empty and "." ones are dropped
PathParts(s) ==
    SelectSeq(Split(s, "/"), LAMBDA part : part # <<>> /\ part # <<".">>)

\* Path.__truediv__: an absolute right operand replaces the left one
PathJoin(dir, s) ==
    IF s # <<>> /\ s[1] = "/" THEN PathParts(s) ELSE dir \o PathParts(s)

\* Path(s).name: the last component, '' when there is none
PathBaseName(s) ==
    LET parts == PathParts(s)
    IN  IF parts = <<>> THEN <<>> ELSE parts[Len(parts)]

\* str(p) of an absolute path
PathStr(p) ==
    IF p = <<>> THEN <<"/">> ELSE Join([i \in 1..Len(p) |-> <<"/">> \o p[i]])

\* the invoking user's home directory and login shell (pwd, expanduser)
HomeDir == <<"/","h","o","m","e","/","u">>
PwShell == <<"/","b","i","n","/","s","h">>

\* /home/u/.wineprefix, where the filesystem of the model keeps the prefixes
PrefixDir == PathParts(HomeDir) \o << <<".","w","i","n","e","p","r","e","f",
                                        "i","x">> >>

----------------------------------------------------------------------------
(* The prefix registry *)

\* the characters the class [^\n \t/'\"] excludes
PrefixReExcluded == {"\n", " ", "\t", "/", "'", "\""}

\* PREFIX_RE.match(s) for ^[^\n \t/'\"]+$ : the class matches a non-empty run
\* from the start, and Python's $ matches at the end of the string and also
\* just before a newline that is the last character
PREFIX_RE_match(s) ==
    \E k \in 1..Len(s) :
        /\ \A i \in 1..k : s[i] \notin PrefixReExcluded
        /\ \/ k = Len(s)
           \/ k = Len(s) - 1 /\ s[Len(s)] = "\n"

\* A filesystem is the record [exists, files, dirs] of what is at and directly
\* below PrefixDir; the ancestors of PrefixDir exist.
FS(exists, fs, ds) == [exists |-> exists, files |-> fs, dirs |-> ds]

\* prefix_dir.iterdir(): the child paths, or FileNotFoundError
iterdir(prefix_dir, fsys) ==
    IF prefix_dir = PrefixDir /\ fsys.exists
    THEN [raised |-> "",
          entries |-> {prefix_dir \o <<n>> : n \in fsys.files \cup fsys.dirs}]
    ELSE [raised |-> "FileNotFoundError", entries |-> {}]

\* prefix.name of a path iterdir yields
PathName(p) == p[Len(p)]

\* the dict {}
EmptyDict == [n \in {} |-> <<>>]

\* load_prefixen(cfg) on the filesystem fsys
load_prefixen(prefix_dir, fsys) ==
    LET it   == iterdir(prefix_dir, fsys)
        kept == {p \in it.entries :
                    PathName(p) \in fsys.dirs /\ PREFIX_RE_match(PathName(p))}
    IN  IF it.raised = "FileNotFoundError" THEN EmptyDict
        ELSE [n \in {PathName(p) : p \in kept} |-> prefix_dir \o <<n>>]

----------------------------------------------------------------------------
(* Filesystem calls of new, on paths at or below PrefixDir *)

\* os.mkdir(p): FileExistsError when p names something that exists
mkdir(fsys, p) ==
    IF p = PrefixDir
    THEN IF fsys.exists
         THEN [raised |-> "FileExistsError", fs |-> fsys]
         ELSE [raised |-> "", fs |-> FS(TRUE, {}, {})]
    ELSE LET tail == PathName(p)
         IN  IF tail = <<".", ".">> \/ tail \in fsys.files \cup fsys.dirs
             THEN [raised |-> "FileExistsError", fs |-> fsys]
             ELSE [raised |-> "",
                   fs |-> FS(fsys.exists, fsys.files, fsys.dirs \cup {tail})]

\* os.makedirs(p) with exist_ok=False: a missing head is created first, then
\* the leaf with mkdir; denied stands for an OSError of the first mkdir
makedirs(fsys, p, denied) ==
    IF denied THEN [raised |-> "PermissionError", fs |-> fsys]
    ELSE IF p = PrefixDir THEN mkdir(fsys, p)
    ELSE IF ~fsys.exists
         THEN mkdir(mkdir(fsys, PrefixDir).fs, p)
         ELSE mkdir(fsys, p)

\* a rollback that removes nothing
rmtree_keeps(fsys, p) == fsys

\* shutil.rmtree(p)
rmtree(fsys, p) ==
    IF p = PrefixDir THEN FS(FALSE, {}, {})
    ELSE FS(fsys.exists, fsys.files, fsys.dirs \ {PathName(p)})

\* what winecfg leaves in the directory WINEPREFIX names
DriveC == <<"d","r","i","v","e","_","c">>

\* the winecfg child running with WINEPREFIX = p: it may populate p, which
\* shows in the model only when p is PrefixDir itself
winecfgWrites(fsys, p, wrote) ==
    IF wrote /\ p = PrefixDir
    THEN FS(fsys.exists, fsys.files, fsys.dirs \cup {DriveC})
    ELSE fsys

\* how subprocess.run(["winecfg"], env=..., check=True) ends once started
ChildOutcomes == {"zero", "nonzero", "interrupt"}

----------------------------------------------------------------------------
(* The desktop file generator *)

BASE_DESKTOP_QUOTE_TABLE ==
    ("\"" :> <<"\\","\"">>) @@ ("backtick" :> <<"\\","backtick">>) @@ ("$" :> <<"\\","$">>) @@ ("\\" :> <<
                                                                             "\\",
                                                                             "\\">>)

\* BASE_DESKTOP_QUOTE_TABLE.copy() with the entry for % added
EXE_DESKTOP_QUOTE_TABLE ==
    [c \in DOMAIN BASE_DESKTOP_QUOTE_TABLE \cup {"%"} |->
        IF c = "%" THEN <<"%","%">> ELSE BASE_DESKTOP_QUOTE_TABLE[c]]

\* s.replace(c, image)
replace(s, c, image) ==
    Join([i \in 1..Len(s) |-> IF s[i] = c THEN image ELSE <<s[i]>>])

\* an escape that replaces one key of the table after the other in the whole
\* string, so that the backslashes it inserted are escaped again
RECURSIVE replace_each(_, _, _)
replace_each(table, keys, s) ==
    IF keys = <<>> THEN s
    ELSE replace_each(table, Tail(keys),
                      IF Head(keys) \in DOMAIN table
                      THEN replace(s, Head(keys), table[Head(keys)]) ELSE s)

escape_by_replace(table, s) == replace_each(table, <<"\"","backtick","$","\\",
                                                     "%">>, s)

\* ''.join(table.get(c, c) for c in s)
escape_with_table(table, s) ==
    Join([i \in 1..Len(s) |->
            IF s[i] \in DOMAIN table THEN table[s[i]] ELSE <<s[i]>>])

escape_exe(s) == escape_with_table(EXE_DESKTOP_QUOTE_TABLE, s)

escape_base(s) == escape_with_table(BASE_DESKTOP_QUOTE_TABLE, s)

\* a desktop entry whose prefix is escaped with the base table
desktop_entry_base_prefix(prefix, exe, name) ==
    lstrip(<<"\n","[","D","e","s","k","t","o","p"," ","E","n","t","r","y","]",
             "\n","T","y","p","e","=","A","p","p","l","i","c","a","t","i","o",
             "n","\n","N","a","m","e","=">> \o escape_base(name)
           \o <<"\n","E","x","e","c","=","e","n","v"," ","\"","W","I","N","E",
                "P","R","E","F","I","X","=">> \o escape_base(prefix)
           \o <<"\""," ","w","i","n","e"," ","\"">> \o escape_exe(exe) \o <<"\"","\n","I","c","o","n",
                                                 "=","w","i","n","e","\n">>)

\* cont of create_desktop_file: the template, formatted, then lstrip()
desktop_entry(prefix, exe, name) ==
    lstrip(<<"\n","[","D","e","s","k","t","o","p"," ","E","n","t","r","y","]",
             "\n","T","y","p","e","=","A","p","p","l","i","c","a","t","i","o",
             "n","\n","N","a","m","e","=">> \o escape_base(name)
           \o <<"\n","E","x","e","c","=","e","n","v"," ","\"","W","I","N","E",
                "P","R","E","F","I","X","=">> \o escape_exe(prefix)
           \o <<"\""," ","w","i","n","e"," ","\"">> \o escape_exe(exe) \o <<"\"","\n","I","c","o","n",
                                                 "=","w","i","n","e","\n">>)

\* f"{name}.desktop", the file opened below ~/.local/share/applications
desktop_file_name(name) == name \o <<".","d","e","s","k","t","o","p">>

\* an override of the prefix that lets the environment win
shortcut_prefix_env_first(env, arg) == IF env # None THEN env ELSE arg

\* prefix of shortcut: environ.get("WINEPREFIX", None), replaced by
\* args.PREFIX when that is not None
shortcut_prefix(env, arg) == IF arg # None THEN arg ELSE env

----------------------------------------------------------------------------
(* The config loader *)

DEFAULT_CONFIG ==
    lstrip(<<"\n","[","o","p","t","i","o","n","s","]","\n","/","/"," ","D",
             "i","r","e","c","t","o","r","y"," ","f","o","r"," ","s","t","o",
             "r","i","n","g"," ","w","i","n","e","p","r","e","f","i","x","e",
             "s","\n">>
           \o <<"p","r","e","f","i","x","_","d","i","r"," ","="," ","~","/",
                ".","w","i","n","e","p","r","e","f","i","x","\n">>
           \o <<"/","/"," ","T","h","e"," ","s","h","e","l","l"," ","t","o",
                " ","u","s","e"," ","w","h","e","n"," ","u","s","i","n","g",
                " ","w","i","n","e","p","r","e","f"," ","b","r","o","w","s",
                "e","\n">>
           \o <<"/","/"," ","I","f"," ","s","e","t"," ","t","o"," ","d","e",
                "f","a","u","l","t"," ","t","h","e","n"," ","u","s","e","s",
                " ","d","e","f","a","u","l","t"," ","s","h","e","l","l"," ",
                "o","f"," ","u","s","e","r"," ">>
           \o <<"f","r","o","m"," ","/","e","t","c","/","p","a","s","s","w",
                "d","\n">>
           \o <<"s","h","e","l","l"," ","="," ","d","e","f","a","u","l","t",
                "\n">>)

\* the lines a file object yields, without their line ends
FileLines(text) ==
    LET pieces == Split(text, "\n")
    IN  IF pieces[Len(pieces)] = <<>>
        THEN SubSeq(pieces, 1, Len(pieces) - 1) ELSE pieces

\* ConfigParser's comment_prefixes and delimiters
CommentPrefixes == {"#", ";"}
Delimiters == {"=", ":"}

UpperCase == <<"A","B","C","D","E","F","G","H","I","J","K","L","M","N","O",
               "P","Q","R","S","T","U","V","W","X","Y","Z">>
LowerCase == <<"a","b","c","d","e","f","g","h","i","j","k","l","m","n","o",
               "p","q","r","s","t","u","v","w","x","y","z">>

\* optionxform: s.lower()
lower(s) ==
    [i \in 1..Len(s) |->
        IF \E k \in 1..Len(UpperCase) : UpperCase[k] = s[i]
        THEN LowerCase[CHOOSE k \in 1..Len(UpperCase) : UpperCase[k] = s[i]]
        ELSE s[i]]

\* SECTCRE.match(value): [ then a non-empty header then a ]
IsSectionHeader(value) ==
    /\ value # <<>> /\ value[1] = "["
    /\ \E k \in 3..Len(value) : value[k] = "]"

\* the header group: up to the last ]
SectionName(value) ==
    LET last == CHOOSE k \in 3..Len(value) :
                    value[k] = "]" /\ \A j \in (k + 1)..Len(value) : value[j] # "]"
    IN  SubSeq(value, 2, last - 1)

\* _optcre.match(value): there is a delimiter to split at
HasDelimiter(value) == \E k \in 1..Len(value) : value[k] \in Delimiters

FirstDelimiter(value) ==
    CHOOSE k \in 1..Len(value) :
        value[k] \in Delimiters /\ \A j \in 1..(k - 1) : value[j] \notin Delimiters

\* The state of RawConfigParser._read between two lines: the exception raised
\* at once, whether a ParsingError is pending (e), the sections read so far
\* and the current section (cursect).
ReadStart ==
    [raised |-> "", e |-> FALSE, sections |-> EmptyDict, cursect |-> None]

\* one pass of the loop of RawConfigParser._read, for lines that do not start
\* with white space (no line of the files modelled here does, so that no line
\* continues the value of the line before it)
ReadLine(st, line) ==
    LET value == strip(line)
    IN  IF st.raised # "" THEN st
        ELSE IF value = <<>> \/ value[1] \in CommentPrefixes THEN st
        ELSE IF IsSectionHeader(value)
        THEN LET sectname == SectionName(value)
             IN  IF sectname \in DOMAIN st.sections
                 THEN [st EXCEPT !.raised = "DuplicateSectionError"]
                 ELSE [st EXCEPT
                         !.sections = (sectname :> EmptyDict) @@ st.sections,
                         !.cursect = Some(sectname)]
        ELSE IF st.cursect = None
        THEN [st EXCEPT !.raised = "MissingSectionHeaderError"]
        ELSE IF HasDelimiter(value)
        THEN LET k == FirstDelimiter(value)
                 optname == lower(rstrip(SubSeq(value, 1, k - 1)))
                 optval == strip(SubSeq(value, k + 1, Len(value)))
                 sect == st.cursect[1]
             IN  IF optname \in DOMAIN st.sections[sect]
                 THEN [st EXCEPT !.raised = "DuplicateOptionError"]
                 ELSE [st EXCEPT
                         !.e = st.e \/ optname = <<>>,
                         !.sections = (sect :> ((optname :> optval)
                                                @@ st.sections[sect]))
                                      @@ st.sections]
        ELSE [st EXCEPT !.e = TRUE]

RECURSIVE ReadLines(_, _)
ReadLines(st, lines) ==
    IF lines = <<>> THEN st
    ELSE ReadLines(ReadLine(st, Head(lines)), Tail(lines))

\* config_parser.read(config_path): the sections, or the exception raised; a
\* pending ParsingError is raised at the end of the file
ConfigParser_read(text) ==
    LET st == ReadLines(ReadStart, FileLines(text))
    IN  [raised |-> IF st.raised # "" THEN st.raised
                    ELSE IF st.e THEN "ParsingError" ELSE "",
         sections |-> st.sections]

\* Path(value).expanduser() and is_absolute(): a first component ~ becomes
\* the home directory, ~name is a user that does not exist
expanduser(value) ==
    LET parts == PathParts(value)
        rooted == value # <<>> /\ value[1] = "/"
        tilde == ~rooted /\ parts # <<>> /\ parts[1] # <<>> /\ parts[1][1] = "~"
    IN  IF tilde /\ parts[1] # <<"~">>
        THEN [raised |-> "RuntimeError", absolute |-> FALSE, parts |-> parts]
        ELSE IF tilde
        THEN [raised |-> "", absolute |-> TRUE,
              parts |-> PathParts(HomeDir) \o Tail(parts)]
        ELSE [raised |-> "", absolute |-> rooted, parts |-> parts]

\* config_path: $XDG_CONFIG_DIR or ~/.config, then winepref/config.cfg
config_path(xdg) ==
    PathJoin(PathJoin(PathParts(IF xdg = None THEN HomeDir \o <<"/",".","c",
                                                                "o","n","f",
                                                                "i","g">>
                                ELSE xdg[1]),
                      <<"w","i","n","e","p","r","e","f">>),
             <<"c","o","n","f","i","g",".","c","f","g">>)

Config(prefix_dir, shell) == [prefix_dir |-> prefix_dir, shell |-> shell]

\* what the process writes to stderr as it ends
Message(msg, arg) == [msg |-> msg, arg |-> arg]
NoMessage == Message("", <<>>)
Traceback(exc) == Message("Traceback", <<exc>>)
ConfigError(exc) == Message("Error while reading config", <<exc>>)
NotAbsolute == Message("prefix_dir in config is not absolute", <<>>)
AlreadyExists(prefix) == Message("Prefix already exists", prefix)
InvalidName(prefix) == Message("Invalid prefix name", prefix)
DontKnowPrefix == Message("Don't know what wineprefix to use", <<>>)

WroteDefaultNotice(xdg) ==
    <<"W","r","o","t","e"," ","d","e","f","a","u","l","t"," ","c","o","n","f",
      "i","g"," ","t","o"," ">> \o PathStr(config_path(xdg))

\* load_config() on the config file (None when absent): the file afterwards,
\* the lines printed, and either the Config returned or how the process ends
load_config(file, xdg) ==
    LET absent  == file = None
        text    == IF absent THEN DEFAULT_CONFIG ELSE file[1]
        printed == IF absent THEN {WroteDefaultNotice(xdg)} ELSE {}
        parsed  == ConfigParser_read(text)
        Ends(err) == [file |-> Some(text), printed |-> printed,
                      cfg |-> None, err |-> err]
        opts    == parsed.sections[<<"o","p","t","i","o","n","s">>]
        dir     == expanduser(opts[<<"p","r","e","f","i","x","_","d","i","r">>])
        shell   == opts[<<"s","h","e","l","l">>]
    IN  IF parsed.raised # "" THEN Ends(Traceback(parsed.raised))
        ELSE IF <<"o","p","t","i","o","n","s">> \notin DOMAIN parsed.sections
        THEN Ends(ConfigError("NoSectionError"))
        ELSE IF <<"p","r","e","f","i","x","_","d","i","r">> \notin DOMAIN opts
        THEN Ends(ConfigError("NoOptionError"))
        ELSE IF dir.raised # "" THEN Ends(Traceback(dir.raised))
        ELSE IF ~dir.absolute THEN Ends(NotAbsolute)
        ELSE IF <<"s","h","e","l","l">> \notin DOMAIN opts
        THEN Ends(ConfigError("NoOptionError"))
        ELSE [file |-> Some(text), printed |-> printed, err |-> NoMessage,
              cfg |-> Some(Config(dir.parts,
                                  IF shell = <<"d","e","f","a","u","l","t">> THEN PwShell
                                  ELSE shell))]

----------------------------------------------------------------------------
(* main() *)

\* cfg = load_config(): the process ends here when the config cannot be read
LoadConfig ==
    /\ pc = "parsed"
    /\ LET r == load_config(configFile, environXDG)
       IN  /\ configFile' = r.file
           /\ stdout' = stdout \cup r.printed
           /\ cfg' = r.cfg
           /\ stderr' = r.err
           /\ IF r.cfg = None
              THEN pc' = "done" /\ status' = 1
              ELSE pc' = "configured" /\ status' = status
    /\ UNCHANGED <<argVars, envVars, prefixDirExists, files, dirs,
                   applications, prefixen, child, generated, escVars>>

\* prefixen = load_prefixen(cfg)
LoadPrefixen ==
    /\ pc = "configured"
    /\ pc' = "loaded"
    /\ prefixen' = load_prefixen(cfg[1].prefix_dir,
                                 FS(prefixDirExists, files, dirs))
    /\ UNCHANGED <<argVars, envVars, fsVars, cfg, status, stderr, stdout,
                   child, generated, escVars>>

\* ls(args, cfg, prefixen)
ls ==
    /\ pc = "loaded" /\ func = "ls"
    /\ pc' = "done"
    /\ stdout' = stdout \cup DOMAIN prefixen
    /\ status' = 0
    /\ UNCHANGED <<argVars, envVars, fsVars, cfg, prefixen, stderr, child,
                   generated, escVars>>

\* a membership test that never finds the name
InRegistry_never(prefix, registry) == FALSE

\* prefix in prefixen
InRegistry(prefix, registry) == prefix \in DOMAIN registry

\* the end of new(): the process ends with status st and message err, the
\* filesystem is fsys and ch is the child that ran
EndNew(st, err, fsys, ch) ==
    /\ pc' = "done"
    /\ status' = st
    /\ stderr' = err
    /\ prefixDirExists' = fsys.exists
    /\ files' = fsys.files
    /\ dirs' = fsys.dirs
    /\ child' = ch
    /\ UNCHANGED <<argVars, envVars, configFile, applications, cfg, prefixen,
                   stdout, generated, escVars>>

\* new(args, cfg, prefixen)
new ==
    /\ pc = "loaded" /\ func = "new"
    /\ LET prefix == argPREFIX
           fsys == FS(prefixDirExists, files, dirs)
           prefix_path == PathJoin(cfg[1].prefix_dir, prefix)
       IN  IF InRegistry(prefix, prefixen)
           THEN EndNew(1, AlreadyExists(prefix), fsys, <<>>)
           ELSE IF ~PREFIX_RE_match(prefix)
           THEN EndNew(1, InvalidName(prefix), fsys, <<>>)
           ELSE \E denied \in BOOLEAN :
                LET made == makedirs(fsys, prefix_path, denied)
                IN  IF made.raised # ""
                    THEN EndNew(1, Traceback(made.raised), made.fs, <<>>)
                    ELSE IF ~winecfgOnPath
                    THEN EndNew(1, Traceback("FileNotFoundError"), made.fs,
                                <<>>)
                    ELSE \E outcome \in ChildOutcomes, wrote \in BOOLEAN :
                         LET ran == winecfgWrites(made.fs, prefix_path, wrote)
                             ch == <<[WINEPREFIX |-> prefix_path,
                                      outcome |-> outcome]>>
                         IN  IF outcome = "zero"
                             THEN EndNew(0, NoMessage, ran, ch)
                             ELSE EndNew(1, NoMessage,
                                         rmtree(ran, prefix_path), ch)

\* shortcut(args, cfg, prefixen) and the create_desktop_file it calls; the
\* open() of a file name with a / in it fails when its directory is missing
shortcut ==
    /\ pc = "loaded" /\ func = "shortcut"
    /\ pc' = "done"
    /\ LET prefix == shortcut_prefix(environWINEPREFIX, argOptPREFIX)
           name == IF argName # None THEN argName[1]
                   ELSE PathBaseName(argEXE)
           file == desktop_file_name(name)
       IN  IF prefix = None
           THEN /\ status' = 1
                /\ stderr' = DontKnowPrefix
                /\ UNCHANGED <<generated, applications>>
           ELSE /\ generated' = Some([prefix |-> prefix[1], exe |-> argEXE,
                                      name |-> name])
                /\ \E opened \in BOOLEAN :
                    /\ opened \/ \E i \in 1..Len(file) : file[i] = "/"
                    /\ IF opened
                       THEN /\ applications' =
                                (file :> desktop_entry(prefix[1], argEXE, name))
                                @@ applications
                            /\ status' = 0
                            /\ stderr' = NoMessage
                       ELSE /\ applications' = applications
                            /\ status' = 1
                            /\ stderr' = Traceback("FileNotFoundError")
    /\ UNCHANGED <<argVars, envVars, configFile, prefixDirExists, files, dirs,
                   cfg, prefixen, stdout, child, escVars>>

----------------------------------------------------------------------------
(* The inputs *)

\* the characters of the names tried on the command line of new
NameAlphabet == {"a", "."} \cup PrefixReExcluded

Names == StringsUpTo(NameAlphabet, MaxNameLen)

\* the entries the prefix directory may hold when the process starts
SeedNames == {<<"a">>, <<"a"," ">>, <<"a","\n">>}

\* the characters of the arguments tried on the command line of shortcut
ShortcutAlphabet == {"a", "%", "\"", "/"}

ShortcutArgs == StringsUpTo(ShortcutAlphabet, MaxArgLen)

\* the values of WINEPREFIX tried: the one browse sets, and one with a %
EnvPrefixes == {PathStr(PrefixDir \o << <<"a">> >>), <<"/","w","%">>}

\* the characters escape_base and escape_exe are tried on
EscapeAlphabet == {"\\", "\"", "backtick", "$", "%", "a"}

\* a config file that sets both options
UsualConfig == <<"[","o","p","t","i","o","n","s","]","\n","p","r","e","f","i",
                 "x","_","d","i","r"," ","="," ","~","/",".","w","i","n","e",
                 "p","r","e","f","i","x","\n","s","h","e","l","l"," ","="," ",
                 "d","e","f","a","u","l","t","\n">>

\* the lines the config files tried are made of
ConfigLinePool ==
    {<<"[","o","p","t","i","o","n","s","]">>, <<"p","r","e","f","i","x","_","d","i","r"," ","="," ","~",
                    "/",".","w","i","n","e","p","r","e","f","i","x">>, <<"p","r","e","f","i","x","_",
                                                  "d","i","r"," ","="," ","w",
                                                  "i","n","e">>,
     <<"s","h","e","l","l"," ","="," ","d","e","f","a","u","l","t">>, <<"s","h","e","l","l"," ","="," ","/","b","i","n","/",
                          "z","s","h">>, <<"/","/"," ","n","o","t","e">>, <<"#"," ","n","o","t",
                                                         "e">>, <<>>}

ConfigTexts ==
    {Join([i \in DOMAIN lines |-> lines[i] \o <<"\n">>]) :
        lines \in UNION {[1..n -> ConfigLinePool] : n \in 0..MaxCfgLines}}

\* the process before main() runs
Started ==
    /\ pc = "start"
    /\ argPREFIX = <<>> /\ argEXE = <<>>
    /\ argOptPREFIX = None /\ argName = None
    /\ applications = EmptyDict
    /\ cfg = None
    /\ prefixen = EmptyDict
    /\ status = -1
    /\ stderr = NoMessage
    /\ stdout = {}
    /\ child = <<>>
    /\ generated = <<>>

\* no call of the escape functions on their own
NoEscape == escS = <<>> /\ escBase = None /\ escExe = None

\* a prefix directory with one prefix in it
OnePrefix == prefixDirExists = TRUE /\ files = {} /\ dirs = { <<"a">> }

\* parser.parse_args(): the arguments of the subcommand
parse_args ==
    /\ pc = "start"
    /\ pc' = "parsed"
    /\ argPREFIX' \in (IF func = "new" THEN Names ELSE {argPREFIX})
    /\ argEXE' \in (IF func = "shortcut" THEN ShortcutArgs ELSE {argEXE})
    /\ argOptPREFIX' \in (IF func = "shortcut"
                          THEN {None} \cup {Some(s) : s \in ShortcutArgs}
                          ELSE {argOptPREFIX})
    /\ argName' \in (IF func = "shortcut"
                     THEN {None} \cup {Some(s) : s \in ShortcutArgs}
                     ELSE {argName})
    /\ UNCHANGED <<func, envVars, fsVars, cfg, prefixen, status, stderr,
                   stdout, child, generated, escVars>>

----------------------------------------------------------------------------
(* winepref ls and winepref new, on every prefix directory *)

Init ==
    /\ Started /\ NoEscape
    /\ func \in {"ls", "new"}
    /\ environWINEPREFIX = None /\ environXDG = None
    /\ winecfgOnPath \in BOOLEAN
    /\ configFile = Some(UsualConfig)
    /\ prefixDirExists \in BOOLEAN
    /\ \E kind \in [SeedNames -> {"none", "file", "dir"}] :
        /\ files = {n \in SeedNames : kind[n] = "file"}
        /\ dirs = {n \in SeedNames : kind[n] = "dir"}
    /\ prefixDirExists \/ (files = {} /\ dirs = {})

Next == parse_args \/ LoadConfig \/ LoadPrefixen \/ ls \/ new

Spec == Init /\ [][Next]_vars

(* winepref shortcut *)

InitShortcut ==
    /\ Started /\ NoEscape /\ OnePrefix
    /\ func = "shortcut"
    /\ environWINEPREFIX \in {None} \cup {Some(s) : s \in EnvPrefixes}
    /\ environXDG = None
    /\ winecfgOnPath = TRUE
    /\ configFile = Some(UsualConfig)

NextShortcut == parse_args \/ LoadConfig \/ LoadPrefixen \/ shortcut

SpecShortcut == InitShortcut /\ [][NextShortcut]_vars

(* winepref ls, on every config file *)

InitConfig ==
    /\ Started /\ NoEscape /\ OnePrefix
    /\ func = "ls"
    /\ environWINEPREFIX = None
    /\ environXDG \in {None, Some(<<"/","x">>)}
    /\ winecfgOnPath = TRUE
    /\ configFile \in {None} \cup {Some(text) : text \in ConfigTexts}

NextConfig == parse_args \/ LoadConfig \/ LoadPrefixen \/ ls

SpecConfig == InitConfig /\ [][NextConfig]_vars

(* escape_base and escape_exe, on every string *)

InitEscape ==
    /\ Started /\ OnePrefix
    /\ func = "print_help"
    /\ environWINEPREFIX = None /\ environXDG = None
    /\ winecfgOnPath = TRUE
    /\ configFile = Some(UsualConfig)
    /\ escS \in StringsUpTo(EscapeAlphabet, MaxStrLen)
    /\ escBase = None /\ escExe = None

EscapeBase ==
    /\ escBase = None
    /\ escBase' = Some(escape_base(escS))
    /\ UNCHANGED <<argVars, envVars, fsVars, runVars, escS, escExe>>

EscapeExe ==
    /\ escExe = None
    /\ escExe' = Some(escape_exe(escS))
    /\ UNCHANGED <<argVars, envVars, fsVars, runVars, escS, escBase>>

NextEscape == EscapeBase \/ EscapeExe

SpecEscape == InitEscape /\ [][NextEscape]_vars

----------------------------------------------------------------------------
(* Properties of the prefix registry and of new, under Spec *)

\* the prefix-name rule: non-empty, none of newline, space, tab, / ' "
NameRule(s) ==
    /\ s # <<>>
    /\ \A i \in 1..Len(s) : s[i] \notin {"\n", " ", "\t", "/", "'", "\""}

\* whether path p, at or directly below the prefix directory, exists
PathExists(p) ==
    IF p = PrefixDir THEN prefixDirExists
    ELSE prefixDirExists /\ PathName(p) \in files \cup dirs

\* what a load_prefixen that followed would return
RegistryNow == load_prefixen(PrefixDir, FS(prefixDirExists, files, dirs))

NewEnded == pc = "done" /\ func = "new" /\ cfg # None

\* C1: a run of new that ends with a failure status leaves the registry as
\* load_prefixen returned it before the run
C1_AllOrNothing ==
    (NewEnded /\ status # 0) => RegistryNow = prefixen

\* C2: when new created the directory and the winecfg child exited non-zero
\* or was interrupted, the directory is gone and the exit status is 1
C2_RollbackOnChildFailure ==
    (NewEnded /\ child # <<>>
        /\ child[1].outcome \in {"nonzero", "interrupt"})
    => (status = 1 /\ ~PathExists(child[1].WINEPREFIX))

C2_Witness ==
    /\ NewEnded /\ child # <<>>
    /\ child[1].outcome = "nonzero"
    /\ child[1].WINEPREFIX = PrefixDir \o <<argPREFIX>>
    /\ status = 1

\* C3: after a successful new with a name the naming rule accepts, the
\* registry maps that name to prefix_dir / name
C3_RoundTrip ==
    (NewEnded /\ status = 0 /\ NameRule(argPREFIX))
    => (/\ argPREFIX \in DOMAIN RegistryNow
        /\ RegistryNow[argPREFIX] = PathJoin(PrefixDir, argPREFIX))

\* C4: new with a name that is a key of the registry ends with "Prefix
\* already exists", status 1, the filesystem as it was and no child started
C4_ExistingNameNoEffect ==
    [][(pc = "loaded" /\ func = "new" /\ argPREFIX \in DOMAIN prefixen)
        => (/\ stderr' = AlreadyExists(argPREFIX)
            /\ status' = 1
            /\ fsVars' = fsVars
            /\ child' = <<>>)]_vars

C4_Witness ==
    /\ NewEnded
    /\ argPREFIX \in DOMAIN prefixen
    /\ stderr = AlreadyExists(argPREFIX)
    /\ argPREFIX \in dirs

\* C5: new rejects exactly the names that violate the naming rule with
\* "Invalid prefix name" and starts no child for them, and no key of the
\* registry violates the rule
C5_OneNameRule ==
    /\ (NewEnded /\ argPREFIX \notin DOMAIN prefixen)
        => (stderr = InvalidName(argPREFIX) <=> ~NameRule(argPREFIX))
    /\ (NewEnded /\ ~NameRule(argPREFIX)) => (child = <<>> /\ status = 1)
    /\ \A n \in DOMAIN prefixen : NameRule(n)

\* C6: the registry's keys are exactly the directories directly in
\* prefix_dir whose names satisfy the naming rule, each mapped to its full
\* path, and the registry is empty when prefix_dir does not exist
C6_RegistryKeys ==
    pc = "loaded" =>
        IF prefixDirExists
        THEN /\ DOMAIN prefixen = {n \in dirs : NameRule(n)}
             /\ \A n \in DOMAIN prefixen : prefixen[n] = PrefixDir \o <<n>>
        ELSE prefixen = EmptyDict

----------------------------------------------------------------------------
(* Properties of shortcut and of the desktop file, under SpecShortcut *)

ShortcutEnded == pc = "done" /\ func = "shortcut" /\ cfg # None

\* C7: the prefix given to create_desktop_file is the PREFIX argument when
\* there is one, else the value of WINEPREFIX; with neither, shortcut ends
\* with "Don't know what wineprefix to use" and no desktop file is written
C7_ShortcutPrefix ==
    ShortcutEnded =>
        IF argOptPREFIX # None
        THEN generated # <<>> /\ generated[1].prefix = argOptPREFIX[1]
        ELSE IF environWINEPREFIX # None
        THEN generated # <<>> /\ generated[1].prefix = environWINEPREFIX[1]
        ELSE /\ generated = <<>>
             /\ stderr = DontKnowPrefix /\ status = 1
             /\ applications = EmptyDict

C7_Witness ==
    /\ ShortcutEnded
    /\ argOptPREFIX # None /\ environWINEPREFIX # None
    /\ argOptPREFIX # environWINEPREFIX
    /\ generated # <<>> /\ generated[1].prefix = argOptPREFIX[1]

\* the characters the base table escapes
BaseReserved == {"\\", "\"", "backtick", "$"}

BaseImage(c) == IF c \in BaseReserved THEN <<"\\", c>> ELSE <<c>>

ExeImage(c) == IF c = "%" THEN <<"%", "%">> ELSE BaseImage(c)

\* s with each character replaced by its image under the base table
RECURSIVE BaseEscaped(_)
BaseEscaped(s) ==
    IF s = <<>> THEN <<>> ELSE BaseImage(Head(s)) \o BaseEscaped(Tail(s))

\* s with each character replaced by its image under the exe table
RECURSIVE ExeEscaped(_)
ExeEscaped(s) ==
    IF s = <<>> THEN <<>> ELSE ExeImage(Head(s)) \o ExeEscaped(Tail(s))

\* the desktop entry with the given values of Name, WINEPREFIX and wine
EntryText(nameValue, prefixValue, exeValue) ==
    <<"[","D","e","s","k","t","o","p"," ","E","n","t","r","y","]","\n","T",
      "y","p","e","=","A","p","p","l","i","c","a","t","i","o","n","\n","N",
      "a","m","e","=">> \o nameValue
    \o <<"\n","E","x","e","c","=","e","n","v"," ","\"","W","I","N","E","P",
         "R","E","F","I","X","=">> \o prefixValue
    \o <<"\""," ","w","i","n","e"," ","\"">> \o exeValue \o <<"\"","\n","I","c","o","n","=","w","i","n",
                                   "e","\n">>

DesktopFileWritten ==
    /\ ShortcutEnded /\ generated # <<>> /\ status = 0
    /\ desktop_file_name(generated[1].name) \in DOMAIN applications

WrittenText == applications[desktop_file_name(generated[1].name)]

\* C9 as stated: Name and the prefix inside Exec are escaped with the base
\* table, the executable inside Exec with the exe table
C9_PrefixBaseEscaped ==
    DesktopFileWritten =>
        WrittenText = EntryText(BaseEscaped(generated[1].name),
                                BaseEscaped(generated[1].prefix),
                                ExeEscaped(generated[1].exe))

\* C9 amended: Name is escaped with the base table; the prefix and the
\* executable inside Exec are both escaped with the exe table
C9_ExecExeEscaped ==
    DesktopFileWritten =>
        WrittenText = EntryText(BaseEscaped(generated[1].name),
                                ExeEscaped(generated[1].prefix),
                                ExeEscaped(generated[1].exe))

C9_Witness ==
    /\ DesktopFileWritten
    /\ generated[1].name = <<"%">> /\ generated[1].prefix = <<"%">>
    /\ generated[1].exe = <<"%">>
    /\ WrittenText = EntryText(<<"%">>, <<"%","%">>, <<"%","%">>)

----------------------------------------------------------------------------
(* Properties of the config loader, under SpecConfig *)

\* the first run printed its notice
WroteDefault == WroteDefaultNotice(environXDG) \in stdout

\* C8: when the config file was absent, load_config wrote the default
\* template and returned the Config of the defaults, and the process did not
\* end with an error
C8_FirstRunUsesDefaults ==
    (pc \notin {"start", "parsed"} /\ WroteDefault)
    => (/\ configFile = Some(DEFAULT_CONFIG)
        /\ cfg = Some(Config(PrefixDir, PwShell))
        /\ status # 1)

----------------------------------------------------------------------------
(* Properties of escape_base and escape_exe, under SpecEscape *)

ReservedFree(s) == \A i \in 1..Len(s) : s[i] \notin BaseReserved \cup {"%"}

\* every backslash of out is followed by a character of the base table, and
\* no character of the base table stands in out without a backslash before it
RECURSIVE NoneBare(_)
NoneBare(out) ==
    IF out = <<>> THEN TRUE
    ELSE IF Head(out) = "\\"
    THEN /\ Len(out) >= 2 /\ out[2] \in BaseReserved
         /\ NoneBare(SubSeq(out, 3, Len(out)))
    ELSE Head(out) \notin BaseReserved /\ NoneBare(Tail(out))

\* out read back: a backslash pair stands for its second character and,
\* with doubled, a pair of percent signs for one
RECURSIVE Unescaped(_, _)
Unescaped(out, doubled) ==
    IF out = <<>> THEN <<>>
    ELSE IF Len(out) >= 2 /\ (Head(out) = "\\" \/ (doubled /\ Head(out) = "%"))
    THEN <<out[2]>> \o Unescaped(SubSeq(out, 3, Len(out)), doubled)
    ELSE <<Head(out)>> \o Unescaped(Tail(out), doubled)

Count(s, c) == Cardinality({i \in 1..Len(s) : s[i] = c})

\* C10: escape_base(s) and escape_exe(s) are the concatenation of the images
\* of the characters of s, the identity on strings without reserved
\* characters; in the output no character of the base table is bare, and a
\* percent sign is kept by escape_base and doubled by escape_exe
C10_EscapeImages ==
    /\ escBase # None =>
        /\ escBase[1] = BaseEscaped(escS)
        /\ ReservedFree(escS) => escBase[1] = escS
        /\ NoneBare(escBase[1])
        /\ Unescaped(escBase[1], FALSE) = escS
        /\ Count(escBase[1], "%") = Count(escS, "%")
    /\ escExe # None =>
        /\ escExe[1] = ExeEscaped(escS)
        /\ ReservedFree(escS) => escExe[1] = escS
        /\ NoneBare(escExe[1])
        /\ Unescaped(escExe[1], TRUE) = escS
        /\ Count(escExe[1], "%") = 2 * Count(escS, "%")

C10_Witness ==
    /\ escS = <<"\\","$","%">>
    /\ escBase = Some(<<"\\","\\","\\","$","%">>)
    /\ escExe = Some(<<"\\","\\","\\","$","%","%">>)

====
